---- MODULE Spec2Model ----
(***************************************************************************)
(* A model of the B2 upload writer of src/b2/b2.go: one Writer, the        *)
(* goroutine that calls Write and Close on it, the upload goroutines it    *)
(* launches, the unbuffered channel between them and the WaitGroup Close   *)
(* waits on.  The remote service (base.Bucket, base.LargeFile, the upload  *)
(* endpoints) is the environment: each of its calls succeeds or fails.     *)
(*                                                                         *)
(* Bytes are not stored one by one.  The stream the caller writes is       *)
(* numbered from 0, and a buffer or a hash state is the range <<lo, hi>>   *)
(* of stream offsets it holds (lo inclusive, hi exclusive).                *)
(***************************************************************************)
EXTENDS Integers, Sequences, FiniteSets

\* ------------------------------------------------------------- constants
\* b2.go:136, the 1e8 of Write.
Threshold == 100000000

\* ---------------------------------------------------------------- bounds
\* Write calls made by the caller.
MaxWrites == 2
\* Close calls made by the caller.
MaxCloses == 2
\* Largest ConcurrentUploads the caller sets; the smallest is -1.
MaxConcurrent == 2
\* UploadPart calls the remote service fails in one run.
MaxPartFailures == 1
\* addWriter and removeWriter calls made on the client.
MaxRegistryCalls == 3

ConcurrentValues == -1 .. MaxConcurrent
\* Lengths of the slice given to one Write call: around 0 and the threshold.
WriteSizes == {0, 1, Threshold - 1, Threshold, Threshold + 1}

VARIABLES
    bw,      \* the Writer's fields
    caller,  \* the goroutine calling Write and Close: where it stands
    thr,     \* the upload goroutines launched by thread(): how many stand at each
             \* place of the function, and the chunks those at UploadPart and at
             \* the send hold (the goroutines have no identity of their own)
    remote,  \* what the remote service has been asked
    proc,    \* the process: "running", "panicking" (a goroutine is unwinding), "dead"
    hist,    \* history of the run: calls made, values returned, failures injected
    client   \* the Client's writer registry: slock, sWriters, and the calls of
             \* addWriter and removeWriter in progress, each in its own goroutine

vars == <<bw, caller, thr, remote, proc, hist>>
allvars == <<bw, caller, thr, remote, proc, hist, client>>

\* ------------------------------------------------------- buffers, digests
BufLen(b) == b[2] - b[1]
\* bytes.Buffer.Write / hash.Hash.Write of n more bytes of the stream.
AppendBytes(b, n) == <<b[1], b[2] + n>>
\* &bytes.Buffer{} / sha1.New() at the stream offset reached.
EmptyAt(b) == <<b[2], b[2]>>
\* A reader that consumed the whole buffer.
Drained(b) == <<b[2], b[2]>>
\* fmt.Sprintf("%x", h.Sum(nil)): the hex digest of the bytes folded into h.
HexSum(h) == <<"sha1", h[1], h[2]>>

NoChunk == [id |-> 0, attempt |-> 0, size |-> 0, sha1 |-> <<"none", 0, 0>>, buf |-> <<0, 0>>]

\* ------------------------------------------------------ pieces of the code
\* A Write that takes the whole threshold as the room left.
Left_IgnoresBuffer(b) == Threshold

\* Write: left := 1e8 - bw.cbuf.Len()
Left(b) == Threshold - BufLen(b)

\* Write: if len(p) < left
Fits(n, left) == n < left

\* A sendChunk whose set-up is not guarded by the Once.
StartOnce_Unguarded(flag) == TRUE

\* sendChunk: bw.once.Do runs its function iff bw.once has not fired.
StartOnce(flag) == ~flag

\* A Close whose body is not guarded by the Once.
DoneOnce_Unguarded(flag) == TRUE

\* Close: bw.done.Do runs its function iff bw.done has not fired.
DoneOnce(flag) == ~flag

\* A pool size that takes ConcurrentUploads as it is.
PoolSize_Unclamped(cu) == cu

\* A launch loop that runs once too often (i <= bw.ConcurrentUploads).
PoolSize_OneMore(cu) == (IF cu < 1 THEN 1 ELSE cu) + 1

\* sendChunk: if bw.ConcurrentUploads < 1 { bw.ConcurrentUploads = 1 }
PoolSize(cu) == IF cu < 1 THEN 1 ELSE cu

\* A chunk literal whose id is bw.cidx, not bw.cidx + 1.
NewChunk_IdFromZero(idx, b, h) ==
    [id |-> idx, attempt |-> 0, size |-> BufLen(b), sha1 |-> HexSum(h), buf |-> b]

\* sendChunk: the chunk literal sent on bw.ready.
NewChunk(idx, b, h) ==
    [id |-> idx + 1, attempt |-> 0, size |-> BufLen(b), sha1 |-> HexSum(h), buf |-> b]

\* thread: chunk.attempt++ ; the same *bytes.Buffer, as far as UploadPart read it.
Retried(c, b) == [c EXCEPT !.attempt = @ + 1, !.buf = b]

\* Close: if bw.cidx == 0
SimplePath(idx) == idx = 0

\* Close that seals its last chunk also when the buffer is empty.
FinalChunkPending_Always(b) == BufLen(b) >= 0

\* Close: if bw.cbuf.Len() > 0
FinalChunkPending(b) == BufLen(b) > 0

\* simpleWriteFile's return value, from the outcome of its two remote calls.
SimpleWriteErr(urlOk, upOk) ==
    IF ~urlOk THEN "geturl" ELSE IF ~upOk THEN "uploadfile" ELSE "nil"

\* A Close that drops the error of FinishLargeFile.
FinishErr_Dropped(ok) == "nil"

\* FinishLargeFile's error as Close returns it.
FinishErr(ok) == IF ok THEN "nil" ELSE "finish"

\* ------------------------------------------------------------------ state
Idle == [pc |-> "idle", op |-> "none", rem |-> 0, n |-> 0]

Returned(h, op, n, err) ==
    [h EXCEPT !.ret = [op |-> op, n |-> n, err |-> err],
              !.spawnRet = IF @ = "pending" THEN err ELSE @]

\* The writers handed to the registry: two for the same bucket and name,
\* one for another name.
RegistryWriters ==
    { [id |-> 1, bucket |-> "b", name |-> "x"],
      [id |-> 2, bucket |-> "b", name |-> "x"],
      [id |-> 3, bucket |-> "b", name |-> "y"] }

\* fmt.Sprintf("%s/%s", w.o.b.Name, w.name)
RegistryKey(w) == w.bucket \o "/" \o w.name

\* A map that was never made (nil), and the result of make(map[string]*Writer).
NilMap == [made |-> FALSE, tab |-> << >>]
EmptyMap == [made |-> TRUE, tab |-> << >>]
\* m[k] = w
MapStore(m, k, w) ==
    [m EXCEPT !.tab = [x \in (DOMAIN m.tab) \cup {k} |-> IF x = k THEN w ELSE m.tab[x]]]
\* delete(m, k)
MapDelete(m, k) ==
    [m EXCEPT !.tab = [x \in (DOMAIN m.tab) \ {k} |-> m.tab[x]]]

\* A Lock that does not wait for the mutex.
MutexFree_NoWait(l) == TRUE

\* c.slock.Lock() goes through iff no call holds the mutex.
MutexFree(l) == l = 0

ClientInit == [slock |-> 0, sWriters |-> NilMap, calls |-> << >>, order |-> << >>]

Init ==
    /\ client = ClientInit
    /\ \E cu \in ConcurrentValues :
         /\ bw = [ConcurrentUploads |-> cu, ready |-> "nil", wg |-> 0,
                  waiters |-> 0, sema |-> 0,
                  once |-> FALSE, done |-> FALSE, file |-> FALSE,
                  cbuf |-> <<0, 0>>, cidx |-> 0, chsh |-> <<0, 0>>]
         /\ hist = [cu0 |-> cu, total |-> 0, writes |-> 0, closes |-> 0, spawned |-> 0,
                    sealed |-> << >>, sealedBy |-> << >>, finalizes |-> 0,
                    ret |-> [op |-> "none", n |-> 0, err |-> "nil"],
                    spawnRet |-> "none", failed |-> {}, partFailures |-> 0]
    /\ caller = Idle
    /\ thr = [url |-> 0, recv |-> 0, exited |-> 0, panicked |-> 0,
              releasing |-> 0, resetting |-> 0, posting |-> 0,
              unwinding |-> 0, unwindReset |-> 0, unwindPost |-> 0,
              upload |-> {}, resend |-> {}]
    /\ remote = [start |-> 0, getUploadURL |-> 0, uploadFile |-> 0, partURL |-> 0,
                 finish |-> 0, uploadPart |-> 0, whole |-> {}, parts |-> {}, acked |-> {}]
    /\ proc = "running"

\* ------------------------------------------------- the calling goroutine
\* close(bw.ready) of Close (b2.go:210), then on to bw.wg.Wait().  Closing a
\* channel that is nil or already closed panics in the calling goroutine.
CloseChannel(w, t, r, h) ==
    /\ thr' = t
    /\ remote' = r
    /\ hist' = h
    /\ IF w.ready = "open"
       THEN /\ bw' = [w EXCEPT !.ready = "closed"]
            /\ caller' = [pc |-> "wait", op |-> "Close", rem |-> 0, n |-> 0]
            /\ proc' = proc
       ELSE /\ bw' = w
            /\ caller' = [pc |-> "panicked", op |-> "Close", rem |-> 0, n |-> 0]
            /\ proc' = "panicking"

\* sendChunk (b2.go:163-183) up to its send on bw.ready: the once.Do that
\* starts the large file, makes the channel and launches the threads, then
\* the caller stands at the send.  A failed StartLargeFile returns the error.
SendChunk(w, t, r, h, op, rem, acc) ==
    /\ proc' = proc
    /\ IF StartOnce(w.once)
       THEN \E ok \in BOOLEAN :
              IF ok
              THEN LET n == PoolSize(w.ConcurrentUploads) IN
                   /\ bw' = [w EXCEPT !.once = TRUE, !.file = TRUE, !.ready = "open",
                                      !.ConcurrentUploads = n]
                   /\ thr' = [t EXCEPT !.url = @ + n]
                   /\ remote' = [r EXCEPT !.start = @ + 1]
                   /\ hist' = [h EXCEPT !.spawned = @ + n, !.spawnRet = "pending"]
                   /\ caller' = [pc |-> "send", op |-> op, rem |-> rem, n |-> acc]
              ELSE /\ bw' = [w EXCEPT !.once = TRUE]
                   /\ thr' = t
                   /\ remote' = [r EXCEPT !.start = @ + 1]
                   /\ hist' = Returned([h EXCEPT !.failed = @ \cup {"start"}], op, acc, "start")
                   /\ caller' = Idle
       ELSE /\ bw' = w
            /\ thr' = t
            /\ remote' = r
            /\ hist' = h
            /\ caller' = [pc |-> "send", op |-> op, rem |-> rem, n |-> acc]

\* The body of Write (b2.go:135-149) on the slice of p bytes, acc bytes of
\* the outer calls already counted, up to its return or its next send.  The
\* writes to the bytes.Buffer and to the hash return no error.
DoWrite(w, t, r, h, p, acc) ==
    LET left == Left(w.cbuf) IN
    IF Fits(p, left)
    THEN /\ bw' = [w EXCEPT !.cbuf = AppendBytes(@, p), !.chsh = AppendBytes(@, p)]
         /\ thr' = t
         /\ remote' = r
         /\ hist' = Returned([h EXCEPT !.total = @ + p], "Write", acc + p, "nil")
         /\ caller' = Idle
         /\ proc' = proc
    ELSE SendChunk([w EXCEPT !.cbuf = AppendBytes(@, left), !.chsh = AppendBytes(@, left)],
                   t, r, [h EXCEPT !.total = @ + left], "Write", p - left, acc + left)

\* simpleWriteFile (b2.go:151-161): GetUploadURL, then UploadFile of the
\* buffer, which reads it (all of it when it succeeds).
SimpleWriteFile(w, h) ==
    /\ thr' = thr
    /\ proc' = proc
    /\ caller' = Idle
    /\ \E urlOk \in BOOLEAN :
         IF ~urlOk
         THEN /\ bw' = w
              /\ remote' = [remote EXCEPT !.getUploadURL = @ + 1]
              /\ hist' = Returned([h EXCEPT !.failed = @ \cup {"geturl"}], "Close", 0,
                                  SimpleWriteErr(FALSE, FALSE))
         ELSE \E upOk \in BOOLEAN :
              \E b \in (IF upOk THEN {Drained(w.cbuf)} ELSE {w.cbuf, Drained(w.cbuf)}) :
                /\ bw' = [w EXCEPT !.cbuf = b]
                /\ remote' = [remote EXCEPT
                                !.getUploadURL = @ + 1,
                                !.uploadFile = @ + 1,
                                !.whole = @ \cup {[size |-> BufLen(w.cbuf),
                                                   sha1 |-> HexSum(w.chsh),
                                                   data |-> w.cbuf]}]
                /\ hist' = Returned([h EXCEPT !.failed =
                                        IF upOk THEN @ ELSE @ \cup {"uploadfile"}],
                                    "Close", 0, SimpleWriteErr(TRUE, upOk))

\* A call of Write(p) by the caller.
Write(p) ==
    /\ UNCHANGED client
    /\ proc # "dead"
    /\ caller.pc = "idle"
    /\ hist.writes < MaxWrites
    /\ DoWrite(bw, thr, remote, [hist EXCEPT !.writes = @ + 1], p, 0)

\* A call of Close by the caller (b2.go:197-218), up to its return, its send
\* of the last chunk or its wait.
Close ==
    /\ UNCHANGED client
    /\ proc # "dead"
    /\ caller.pc = "idle"
    /\ hist.closes < MaxCloses
    /\ LET h == [hist EXCEPT !.closes = @ + 1] IN
       IF ~DoneOnce(bw.done)
       THEN /\ hist' = Returned(h, "Close", 0, "nil")
            /\ UNCHANGED <<bw, caller, thr, remote, proc>>
       ELSE LET w == [bw EXCEPT !.done = TRUE]
                g == [h EXCEPT !.finalizes = @ + 1]
            IN IF SimplePath(w.cidx)
               THEN SimpleWriteFile(w, g)
               ELSE IF FinalChunkPending(w.cbuf)
                    THEN SendChunk(w, thr, remote, g, "Close", 0, 0)
                    ELSE CloseChannel(w, thr, remote, g)

\* The send of sendChunk (b2.go:183-188) meets the receive of a thread
\* (b2.go:120): the chunk passes to that goroutine, which runs on with it,
\* while the caller has still to execute the lines after the send.
CallerSend ==
    /\ UNCHANGED client
    /\ proc # "dead"
    /\ caller.pc = "send"
    /\ bw.ready = "open"
    /\ thr.recv > 0
    /\ LET c == NewChunk(bw.cidx, bw.cbuf, bw.chsh) IN
       /\ thr' = [thr EXCEPT !.recv = @ - 1, !.upload = @ \cup {c}]
       /\ hist' = [hist EXCEPT !.sealed = Append(@, c),
                               !.sealedBy = Append(@, caller.op)]
    /\ caller' = [caller EXCEPT !.pc = "sent"]
    /\ UNCHANGED <<bw, remote, proc>>

\* The caller after its send (b2.go:189-193): the writer moves on to the
\* next part id and a fresh buffer and hash, sendChunk returns, and the
\* caller continues with the rest of Write (b2.go:147) or with
\* close(bw.ready) of Close (b2.go:210).
AfterSend ==
    /\ UNCHANGED client
    /\ proc # "dead"
    /\ caller.pc = "sent"
    /\ LET w == [bw EXCEPT !.cidx = @ + 1, !.chsh = EmptyAt(@), !.cbuf = EmptyAt(@)]
       IN IF caller.op = "Write"
          THEN DoWrite(w, thr, remote, hist, caller.rem, caller.n)
          ELSE CloseChannel(w, thr, remote, hist)

\* The send of sendChunk on a closed channel panics in the caller.
CallerPanic ==
    /\ UNCHANGED client
    /\ proc # "dead"
    /\ caller.pc = "send"
    /\ bw.ready = "closed"
    /\ caller' = [caller EXCEPT !.pc = "panicked"]
    /\ proc' = "panicking"
    /\ UNCHANGED <<bw, thr, remote, hist>>

\* bw.wg.Wait() of Close (b2.go:211), as sync.WaitGroup does it: with the
\* counter at zero it returns at once, otherwise the caller registers as a
\* waiter and sleeps on the semaphore.  The counter counts the goroutines
\* that have passed bw.wg.Add(1) (b2.go:117) and not yet run bw.wg.Done().
Wait ==
    /\ UNCHANGED client
    /\ proc # "dead"
    /\ caller.pc = "wait"
    /\ IF bw.wg = 0
       THEN /\ caller' = [caller EXCEPT !.pc = "finish"]
            /\ bw' = bw
       ELSE /\ caller' = [caller EXCEPT !.pc = "sleep"]
            /\ bw' = [bw EXCEPT !.waiters = @ + 1]
    /\ UNCHANGED <<thr, remote, proc, hist>>

\* The sleeping caller is woken by the semaphore: Wait returns if the
\* WaitGroup's state is still zero, and panics ("WaitGroup is reused before
\* previous Wait has returned") if a goroutine has run bw.wg.Add(1) since.
WaitReturn ==
    /\ UNCHANGED client
    /\ proc # "dead"
    /\ caller.pc = "sleep"
    /\ bw.sema > 0
    /\ bw' = [bw EXCEPT !.sema = @ - 1]
    /\ IF bw.wg = 0 /\ bw.waiters = 0
       THEN /\ caller' = [caller EXCEPT !.pc = "finish"]
            /\ proc' = proc
       ELSE /\ caller' = [caller EXCEPT !.pc = "panicked"]
            /\ proc' = "panicking"
    /\ UNCHANGED <<thr, remote, hist>>

\* bw.file.FinishLargeFile of Close and Close's return (b2.go:212-217).
FinishLargeFile ==
    /\ UNCHANGED client
    /\ proc # "dead"
    /\ caller.pc = "finish"
    /\ \E ok \in BOOLEAN :
         /\ remote' = [remote EXCEPT !.finish = @ + 1]
         /\ hist' = Returned([hist EXCEPT !.failed = IF ok THEN @ ELSE @ \cup {"finish"}],
                             "Close", 0, FinishErr(ok))
    /\ caller' = Idle
    /\ UNCHANGED <<bw, thr, proc>>

\* ------------------------------------------------- the upload goroutines
\* bw.wg.Add(1) on a counter v with w waiters panics ("WaitGroup misuse: Add
\* called concurrently with Wait") when it raises the counter from zero
\* while a waiter is registered.
AddMisuse(v, w) == w # 0 /\ v = 0

\* bw.wg.Add(1) or bw.wg.Done() that brings the counter to v below zero
\* panics ("negative WaitGroup counter"): the reset of another goroutine's
\* Done has wiped an Add.
NegativeCounter(v) == v < 0

\* bw.wg.Done() that brings the counter to v with w waiters has the waiters
\* to release.
DoneReleases(v, w) == v = 0 /\ w # 0

\* thread (b2.go:112-118): GetUploadPartURL; on an error the goroutine logs
\* and returns, otherwise it registers with the WaitGroup and starts to
\* receive.
GetUploadPartURL ==
    /\ UNCHANGED client
    /\ proc # "dead"
    /\ thr.url > 0
    /\ remote' = [remote EXCEPT !.partURL = @ + 1]
    /\ \E ok \in BOOLEAN :
         IF ok
         THEN /\ bw' = [bw EXCEPT !.wg = @ + 1]
              /\ hist' = hist
              /\ IF NegativeCounter(bw.wg + 1) \/ AddMisuse(bw.wg, bw.waiters)
                 THEN /\ thr' = [thr EXCEPT !.url = @ - 1, !.panicked = @ + 1]
                      /\ proc' = "panicking"
                 ELSE /\ thr' = [thr EXCEPT !.url = @ - 1, !.recv = @ + 1]
                      /\ proc' = proc
         ELSE /\ bw' = bw
              /\ thr' = [thr EXCEPT !.url = @ - 1, !.exited = @ + 1]
              /\ hist' = [hist EXCEPT !.failed = @ \cup {"parturl"}]
              /\ proc' = proc
    /\ UNCHANGED caller

\* thread (b2.go:120-123): the receive on a closed channel; the goroutine
\* returns and its deferred wg.Done() runs: the atomic decrement of the
\* counter, after which the goroutine has returned unless it has waiters to
\* release.
WorkerExit ==
    /\ UNCHANGED client
    /\ proc # "dead"
    /\ thr.recv > 0
    /\ bw.ready = "closed"
    /\ bw' = [bw EXCEPT !.wg = @ - 1]
    /\ IF NegativeCounter(bw.wg - 1)
       THEN /\ thr' = [thr EXCEPT !.recv = @ - 1, !.panicked = @ + 1]
            /\ proc' = "panicking"
       ELSE /\ proc' = proc
            /\ IF DoneReleases(bw.wg - 1, bw.waiters)
               THEN thr' = [thr EXCEPT !.recv = @ - 1, !.releasing = @ + 1]
               ELSE thr' = [thr EXCEPT !.recv = @ - 1, !.exited = @ + 1]
    /\ UNCHANGED <<caller, remote, hist>>

\* bw.wg.Done() in a goroutine that brought the counter to zero with a
\* waiter registered goes on in three steps.  First the check of the state:
\* if it is still the one the goroutine left, the goroutine goes on to
\* reset it; if another goroutine has run bw.wg.Add(1) since, Done panics
\* ("WaitGroup misuse: Add called concurrently with Wait").
WorkerRelease ==
    /\ UNCHANGED client
    /\ proc # "dead"
    /\ thr.releasing > 0
    /\ IF DoneReleases(bw.wg, bw.waiters)
       THEN /\ thr' = [thr EXCEPT !.releasing = @ - 1, !.resetting = @ + 1]
            /\ proc' = proc
       ELSE /\ thr' = [thr EXCEPT !.releasing = @ - 1, !.panicked = @ + 1]
            /\ proc' = "panicking"
    /\ UNCHANGED <<bw, caller, remote, hist>>

\* Then the plain store that resets the state, counter and waiters, whatever
\* another goroutine has added since the check.
WorkerReset ==
    /\ UNCHANGED client
    /\ proc # "dead"
    /\ thr.resetting > 0
    /\ bw' = [bw EXCEPT !.wg = 0, !.waiters = 0]
    /\ thr' = [thr EXCEPT !.resetting = @ - 1, !.posting = @ + 1]
    /\ UNCHANGED <<caller, remote, proc, hist>>

\* Then the release of the semaphore for the waiter the goroutine saw, and
\* the goroutine has returned.
WorkerSemrelease ==
    /\ UNCHANGED client
    /\ proc # "dead"
    /\ thr.posting > 0
    /\ bw' = [bw EXCEPT !.sema = @ + 1]
    /\ thr' = [thr EXCEPT !.posting = @ - 1, !.exited = @ + 1]
    /\ UNCHANGED <<caller, remote, proc, hist>>

\* chunk.buf is the *bytes.Buffer bw.cbuf points to until the caller has
\* run bw.cbuf = &bytes.Buffer{} (b2.go:187, 191): a read of the chunk last
\* sent is a read of bw.cbuf while the caller stands after its send.
SharesBuffer(c) == caller.pc = "sent" /\ c.id = bw.cidx + 1

\* thread (b2.go:124-129): UploadPart on the chunk c a goroutine holds, which
\* reads the chunk's buffer, all of it when it succeeds and none or all of it
\* when it fails.  On an error the attempt is counted and the goroutine goes
\* to send the chunk back.
UploadPart(c) ==
    /\ UNCHANGED client
    /\ proc # "dead"
    /\ c \in thr.upload
    /\ LET call == [id |-> c.id, attempt |-> c.attempt, size |-> c.size,
                    sha1 |-> c.sha1, data |-> c.buf]
       IN \E ok \in BOOLEAN :
            IF ok
            THEN /\ remote' = [remote EXCEPT !.uploadPart = @ + 1,
                                             !.parts = @ \cup {call},
                                             !.acked = @ \cup {c.id}]
                 /\ thr' = [thr EXCEPT !.upload = @ \ {c}, !.recv = @ + 1]
                 /\ bw' = IF SharesBuffer(c) THEN [bw EXCEPT !.cbuf = Drained(c.buf)] ELSE bw
                 /\ hist' = hist
            ELSE /\ hist.partFailures < MaxPartFailures
                 /\ remote' = [remote EXCEPT !.uploadPart = @ + 1,
                                             !.parts = @ \cup {call}]
                 /\ \E b \in {c.buf, Drained(c.buf)} :
                      /\ thr' = [thr EXCEPT !.upload = @ \ {c},
                                            !.resend = @ \cup {Retried(c, b)}]
                      /\ bw' = IF SharesBuffer(c) THEN [bw EXCEPT !.cbuf = b] ELSE bw
                 /\ hist' = [hist EXCEPT !.partFailures = @ + 1,
                                         !.failed = @ \cup {"part"}]
    /\ UNCHANGED <<caller, proc>>

\* thread (b2.go:127): the send of the failed chunk c meets the receive of
\* another goroutine, which takes the chunk; the sender goes on to receive.
WorkerSend(c) ==
    /\ UNCHANGED client
    /\ proc # "dead"
    /\ c \in thr.resend
    /\ thr.recv > 0
    /\ bw.ready = "open"
    /\ thr' = [thr EXCEPT !.resend = @ \ {c}, !.upload = @ \cup {c}]
    /\ UNCHANGED <<bw, caller, remote, proc, hist>>

\* thread (b2.go:127): the send of chunk c on a closed channel panics; the
\* goroutine unwinds, its deferred wg.Done() runs (b2.go:118), and the
\* runtime then ends the process.
WorkerPanic(c) ==
    /\ UNCHANGED client
    /\ proc # "dead"
    /\ c \in thr.resend
    /\ bw.ready = "closed"
    /\ bw' = [bw EXCEPT !.wg = @ - 1]
    /\ IF DoneReleases(bw.wg - 1, bw.waiters)
       THEN /\ thr' = [thr EXCEPT !.resend = @ \ {c}, !.unwinding = @ + 1]
            /\ proc' = proc
       ELSE /\ thr' = [thr EXCEPT !.resend = @ \ {c}, !.panicked = @ + 1]
            /\ proc' = "panicking"
    /\ UNCHANGED <<caller, remote, hist>>

\* The deferred bw.wg.Done() in a panicking goroutine that brought the
\* counter to zero with a waiter registered, in the same three steps: the
\* check of the state, which ends the unwinding with a second panic if
\* another goroutine has run bw.wg.Add(1) since;
WorkerUnwind ==
    /\ UNCHANGED client
    /\ proc # "dead"
    /\ thr.unwinding > 0
    /\ IF DoneReleases(bw.wg, bw.waiters)
       THEN /\ thr' = [thr EXCEPT !.unwinding = @ - 1, !.unwindReset = @ + 1]
            /\ proc' = proc
       ELSE /\ thr' = [thr EXCEPT !.unwinding = @ - 1, !.panicked = @ + 1]
            /\ proc' = "panicking"
    /\ UNCHANGED <<bw, caller, remote, hist>>

\* the plain store that resets the state;
UnwindReset ==
    /\ UNCHANGED client
    /\ proc # "dead"
    /\ thr.unwindReset > 0
    /\ bw' = [bw EXCEPT !.wg = 0, !.waiters = 0]
    /\ thr' = [thr EXCEPT !.unwindReset = @ - 1, !.unwindPost = @ + 1]
    /\ UNCHANGED <<caller, remote, proc, hist>>

\* the release of the semaphore, after which the unwinding ends and the
\* runtime is to end the process.
UnwindSemrelease ==
    /\ UNCHANGED client
    /\ proc # "dead"
    /\ thr.unwindPost > 0
    /\ bw' = [bw EXCEPT !.sema = @ + 1]
    /\ thr' = [thr EXCEPT !.unwindPost = @ - 1, !.panicked = @ + 1]
    /\ proc' = "panicking"
    /\ UNCHANGED <<caller, remote, hist>>

\* The runtime ends the process after an unrecovered panic.
ProcessExit ==
    /\ UNCHANGED client
    /\ proc = "panicking"
    /\ proc' = "dead"
    /\ UNCHANGED <<bw, caller, thr, remote, hist>>

Next ==
    \/ \E p \in WriteSizes : Write(p)
    \/ Close
    \/ CallerSend
    \/ AfterSend
    \/ CallerPanic
    \/ Wait
    \/ WaitReturn
    \/ FinishLargeFile
    \/ GetUploadPartURL
    \/ WorkerExit
    \/ WorkerRelease
    \/ WorkerReset
    \/ WorkerSemrelease
    \/ \E c \in thr.upload : UploadPart(c)
    \/ \E c \in thr.resend : WorkerSend(c)
    \/ \E c \in thr.resend : WorkerPanic(c)
    \/ WorkerUnwind
    \/ UnwindReset
    \/ UnwindSemrelease
    \/ ProcessExit

Spec == Init /\ [][Next]_allvars

\* ------------------------------------------------- runs without failures
\* The step taken leaves every remote call made so far successful.
FailureFree == hist'.failed = {}

\* The writer used as an io.WriteCloser, Write calls and then Close, with a
\* remote service that never fails.
LiveNext ==
    \/ \E p \in WriteSizes : hist.closes = 0 /\ Write(p) /\ FailureFree
    \/ Close /\ FailureFree
    \/ CallerSend /\ FailureFree
    \/ AfterSend /\ FailureFree
    \/ Wait /\ FailureFree
    \/ WaitReturn /\ FailureFree
    \/ FinishLargeFile /\ FailureFree
    \/ GetUploadPartURL /\ FailureFree
    \/ WorkerExit /\ FailureFree
    \/ WorkerRelease /\ FailureFree
    \/ WorkerReset /\ FailureFree
    \/ WorkerSemrelease /\ FailureFree
    \/ \E c \in thr.upload : UploadPart(c) /\ FailureFree
    \/ ProcessExit /\ FailureFree

\* The Go scheduler runs every goroutine that can take a step: the caller
\* inside a call, and each upload goroutine.
LiveFairness ==
    /\ WF_allvars(CallerSend /\ FailureFree)
    /\ WF_allvars(AfterSend /\ FailureFree)
    /\ WF_allvars(Wait /\ FailureFree)
    /\ WF_allvars(WaitReturn /\ FailureFree)
    /\ WF_allvars(FinishLargeFile /\ FailureFree)
    /\ WF_allvars(GetUploadPartURL /\ FailureFree)
    /\ WF_allvars(WorkerExit /\ FailureFree)
    /\ WF_allvars(WorkerRelease /\ FailureFree)
    /\ WF_allvars(WorkerReset /\ FailureFree)
    /\ WF_allvars(WorkerSemrelease /\ FailureFree)
    /\ WF_allvars(\E c \in thr.upload : UploadPart(c) /\ FailureFree)

LiveSpec == Init /\ [][LiveNext]_allvars /\ LiveFairness

\* ------------------------------------------------- the writer registry
\* A goroutine calls addWriter(w) or removeWriter(w) (part_000:34, 45).
RegistryCall(op, w) ==
    /\ UNCHANGED vars
    /\ Len(client.calls) < MaxRegistryCalls
    /\ client' = [client EXCEPT !.calls = Append(@, [op |-> op, w |-> w, pc |-> "lock"])]

\* c.slock.Lock() of call i (part_000:35, 46).
RegistryLock(i) ==
    /\ UNCHANGED vars
    /\ client.calls[i].pc = "lock"
    /\ MutexFree(client.slock)
    /\ client' = [client EXCEPT !.slock = i,
                                !.calls[i].pc = "test",
                                !.order = Append(@, i)]

\* if c.sWriters == nil of call i (part_000:38, 49): addWriter goes on to
\* make the map or to store, removeWriter to return or to delete.
RegistryTest(i) ==
    /\ UNCHANGED vars
    /\ client.calls[i].pc = "test"
    /\ client' = [client EXCEPT !.calls[i].pc =
                     IF client.calls[i].op = "add"
                     THEN (IF client.sWriters.made THEN "store" ELSE "make")
                     ELSE (IF client.sWriters.made THEN "delete" ELSE "unlock")]

\* c.sWriters = make(map[string]*Writer) of addWriter (part_000:39).
RegistryMake(i) ==
    /\ UNCHANGED vars
    /\ client.calls[i].pc = "make"
    /\ client' = [client EXCEPT !.sWriters = EmptyMap, !.calls[i].pc = "store"]

\* c.sWriters[key] = w of addWriter (part_000:42).
RegistryStore(i) ==
    /\ UNCHANGED vars
    /\ client.calls[i].pc = "store"
    /\ client' = [client EXCEPT
                     !.sWriters = MapStore(@, RegistryKey(client.calls[i].w), client.calls[i].w),
                     !.calls[i].pc = "unlock"]

\* delete(c.sWriters, key) of removeWriter (part_000:53).
RegistryDelete(i) ==
    /\ UNCHANGED vars
    /\ client.calls[i].pc = "delete"
    /\ client' = [client EXCEPT
                     !.sWriters = MapDelete(@, RegistryKey(client.calls[i].w)),
                     !.calls[i].pc = "unlock"]

\* The deferred c.slock.Unlock() of call i (part_000:36, 47) and its return.
RegistryUnlock(i) ==
    /\ UNCHANGED vars
    /\ client.calls[i].pc = "unlock"
    /\ client' = [client EXCEPT !.slock = 0, !.calls[i].pc = "done"]

RegistryNext ==
    \/ \E op \in {"add", "remove"}, w \in RegistryWriters : RegistryCall(op, w)
    \/ \E i \in DOMAIN client.calls : RegistryLock(i)
    \/ \E i \in DOMAIN client.calls : RegistryTest(i)
    \/ \E i \in DOMAIN client.calls : RegistryMake(i)
    \/ \E i \in DOMAIN client.calls : RegistryStore(i)
    \/ \E i \in DOMAIN client.calls : RegistryDelete(i)
    \/ \E i \in DOMAIN client.calls : RegistryUnlock(i)

\* The registry alone, with a writer that is not used.
RegistryInit == Init /\ hist.cu0 = 0
RegistrySpec == RegistryInit /\ [][RegistryNext]_allvars

\* ======================================================== properties
\* A step of the program itself: every action but a new call by the caller.
ProgramStep ==
    \/ CallerSend
    \/ AfterSend
    \/ CallerPanic
    \/ Wait
    \/ WaitReturn
    \/ FinishLargeFile
    \/ GetUploadPartURL
    \/ WorkerExit
    \/ WorkerRelease
    \/ WorkerReset
    \/ WorkerSemrelease
    \/ \E c \in thr.upload : UploadPart(c)
    \/ \E c \in thr.resend : WorkerSend(c)
    \/ \E c \in thr.resend : WorkerPanic(c)
    \/ WorkerUnwind
    \/ UnwindReset
    \/ UnwindSemrelease
    \/ ProcessExit

\* The goroutines launched that have not returned or panicked.
Running ==
    thr.url + thr.recv + thr.releasing + thr.resetting + thr.posting
        + thr.unwinding + thr.unwindReset + thr.unwindPost
        + Cardinality(thr.upload) + Cardinality(thr.resend)
\* All the goroutines launched.
Launched == Running + thr.exited + thr.panicked

\* The first Close call has just returned: nothing was called after it.
FirstCloseReturned ==
    /\ caller.pc = "idle"
    /\ hist.closes = 1
    /\ hist.ret.op = "Close"

\* No remote call has failed so far.
NoRemoteFailure == hist.failed = {}

Sealed == hist.sealed
SealedIds == {Sealed[i].id : i \in 1 .. Len(Sealed)}
CeilDiv(a, b) == (a + b - 1) \div b

\* C1: when Close returns in a run without remote failures, the simple path
\* was taken iff at most Threshold bytes were written: then exactly one
\* whole-object upload and no start-session, part-upload or finish-session
\* call was made; otherwise the multi-part path ran and no whole-object
\* upload was made.
C1_SimplePathIffAtMostThreshold ==
    (FirstCloseReturned /\ NoRemoteFailure) =>
        IF hist.total <= Threshold
        THEN /\ remote.uploadFile = 1
             /\ remote.start = 0
             /\ remote.parts = {}
             /\ remote.finish = 0
        ELSE /\ remote.uploadFile = 0
             /\ remote.start = 1
             /\ remote.finish = 1

\* C2: no part of size 0 is ever sealed, and when Close returns after more
\* than Threshold bytes were written, in a run without remote failures, the
\* parts sealed are ceil(L / Threshold) in number, each of Threshold bytes
\* but the last, which has L mod Threshold bytes, or Threshold when that is 0.
C2_PartSizes ==
    /\ \A i \in 1 .. Len(Sealed) : Sealed[i].size > 0
    /\ (FirstCloseReturned /\ NoRemoteFailure /\ hist.total > Threshold) =>
         LET L == hist.total
             n == CeilDiv(L, Threshold)
         IN /\ Len(Sealed) = n
            /\ \A i \in 1 .. n :
                 Sealed[i].size =
                    IF i < n \/ L % Threshold = 0 THEN Threshold ELSE L % Threshold

\* C2 witness: Close has returned after 2 * Threshold + 1 bytes, three parts sealed.
C2_Witness ==
    /\ FirstCloseReturned
    /\ NoRemoteFailure
    /\ hist.total = 2 * Threshold + 1
    /\ Len(Sealed) = 3
    /\ remote.finish = 1

\* Every goroutine of the program is blocked inside a call that has not returned.
Stuck == caller.pc \notin {"idle", "panicked"} /\ ~ENABLED ProgramStep

\* C3: in a run whose only remote failure is one failed UploadPart, the
\* upload completes: the process does not panic, no call blocks for ever,
\* and when Close has returned every part sealed is acknowledged,
\* finish-session was called and the failed part was uploaded with an
\* attempt counter of at least 1.
C3_OneFailureStillCompletes ==
    (hist.failed = {"part"} /\ hist.partFailures = 1) =>
        /\ proc = "running"
        /\ ~Stuck
        /\ FirstCloseReturned =>
             /\ SealedIds \subseteq remote.acked
             /\ remote.finish = 1
             /\ \E c \in remote.parts : c.attempt >= 1

\* C4: a Close call on a writer whose done.Do has fired makes no remote
\* call, leaves the channel, the writer and the threads as they are, and
\* returns nil at once.
C4_CloseIdempotent ==
    [][(caller.pc = "idle" /\ bw.done /\ hist'.closes = hist.closes + 1) =>
          /\ remote' = remote
          /\ bw' = bw
          /\ thr' = thr
          /\ proc' = proc
          /\ caller'.pc = "idle"
          /\ hist'.ret = [op |-> "Close", n |-> 0, err |-> "nil"]]_vars

\* C4 witness: a second Close has returned nil after the first returned the
\* error of FinishLargeFile.
C4_Witness ==
    /\ hist.closes = 2
    /\ caller.pc = "idle"
    /\ hist.ret = [op |-> "Close", n |-> 0, err |-> "nil"]
    /\ "finish" \in hist.failed
    /\ remote.finish = 1

\* C5: the chunks handed to the channel by sendChunk carry the ids 1, 2,
\* ..., n in the order they were sealed; a chunk a thread holds or resends,
\* and every call of UploadPart, carries the id, size and digest of the
\* sealed chunk of that id, so every id lies in 1..n.
C5_ChunkIds ==
    /\ \A i \in 1 .. Len(Sealed) : Sealed[i].id = i
    /\ \A c \in thr.upload \cup thr.resend :
         /\ c.id \in 1 .. Len(Sealed)
         /\ Sealed[c.id].sha1 = c.sha1
         /\ Sealed[c.id].size = c.size
    /\ \A c \in remote.parts :
         /\ c.id \in 1 .. Len(Sealed)
         /\ Sealed[c.id].sha1 = c.sha1
         /\ Sealed[c.id].size = c.size

\* C5 witness: part 2 of three was uploaded a second time, after a failure.
C5_Witness ==
    /\ Len(Sealed) = 3
    /\ \E c \in remote.parts : c.id = 2 /\ c.attempt = 1
    /\ 2 \in remote.acked

\* C6: FinishLargeFile is called only when every part sealed has been
\* acknowledged by a successful UploadPart.
C6_FinishAfterAllAcked ==
    remote.finish > 0 => SealedIds \subseteq remote.acked

\* C7: once a thread's GetUploadPartURL has failed, the call that launched
\* the threads returns that error: it has not returned another value, and
\* while it has not returned the program can still take a step.
C7_EndpointErrorSurfaced ==
    "parturl" \in hist.failed =>
        IF hist.spawnRet = "pending"
        THEN ENABLED ProgramStep
        ELSE hist.spawnRet = "parturl"

\* C8: a failed StartLargeFile is returned by the Write that made the call,
\* and no thread is launched, no channel made and no chunk id used, then or
\* later; a failed FinishLargeFile, GetUploadURL or UploadFile is returned
\* by the Close that made the call; none of these calls is made again after
\* it failed.
C8_ErrorsReturned ==
    [][/\ ("start" \in hist'.failed /\ "start" \notin hist.failed) =>
            /\ caller'.pc = "idle"
            /\ hist'.ret.op = "Write"
            /\ hist'.ret.err = "start"
       /\ "start" \in hist'.failed =>
            /\ bw'.ready = "nil"
            /\ ~bw'.file
            /\ bw'.cidx = 0
            /\ hist'.spawned = 0
            /\ thr' = thr
            /\ remote'.start = 1
       /\ \A e \in {"finish", "geturl", "uploadfile"} :
            (e \in hist'.failed /\ e \notin hist.failed) =>
               /\ caller'.pc = "idle"
               /\ hist'.ret = [op |-> "Close", n |-> 0, err |-> e]
       /\ "finish" \in hist.failed => remote'.finish = remote.finish
       /\ "geturl" \in hist.failed => remote'.getUploadURL = remote.getUploadURL
       /\ "uploadfile" \in hist.failed => remote'.uploadFile = remote.uploadFile]_vars

\* C8 witness: a Write has returned the error of StartLargeFile.
C8_Witness ==
    /\ "start" \in hist.failed
    /\ caller.pc = "idle"
    /\ hist.ret.op = "Write"
    /\ hist.ret.err = "start"
    /\ hist.ret.n = 1

\* C9: no thread is launched before StartLargeFile has succeeded, and from
\* then on the number launched is max(1, ConcurrentUploads), for the value
\* of ConcurrentUploads the writer was given.
C9_PoolSize ==
    /\ hist.spawned = IF bw.file THEN (IF hist.cu0 > 1 THEN hist.cu0 ELSE 1) ELSE 0
    /\ Launched = hist.spawned

\* C9 witness: ConcurrentUploads was 0, one thread was launched, and a
\* second chunk has overflowed the buffer since.
C9_Witness ==
    /\ hist.cu0 = 0
    /\ hist.spawned = 1
    /\ Len(Sealed) = 2

\* C10: when wg.Wait has returned in Close, no goroutine launched by this
\* writer is still running; stated for the runs in which no remote call
\* has failed, where no goroutine panics.
C10_WaitMeansAllExited ==
    (caller.pc = "finish" /\ NoRemoteFailure) => Running = 0

\* C11: StartLargeFile is called at most once, also after it failed, and
\* the body of Close (the whole-object upload, or the close of the channel,
\* the wait and FinishLargeFile) runs at most once.
C11_StartAndFinalizeOnce ==
    /\ remote.start <= 1
    /\ hist.finalizes <= 1
    /\ remote.getUploadURL <= 1
    /\ remote.uploadFile <= 1
    /\ remote.finish <= 1
    /\ remote.getUploadURL + remote.finish <= 1
    /\ hist.finalizes = (IF bw.done THEN 1 ELSE 0)

\* C11 witness: after a failed StartLargeFile a later Write has reached
\* sendChunk again, and StartLargeFile was not called a second time.
C11_Witness ==
    /\ "start" \in hist.failed
    /\ hist.writes = 2
    /\ caller.pc = "send"
    /\ remote.start = 1

\* C12: between calls the hash holds exactly the bytes the unsealed buffer
\* holds, and every chunk sealed and every whole-object upload carries the
\* digest of exactly its bytes and the count of those bytes as size.
C12_LockstepBetweenCalls ==
    /\ caller.pc = "idle" => bw.chsh = bw.cbuf
    /\ \A i \in 1 .. Len(Sealed) :
         /\ Sealed[i].sha1 = HexSum(Sealed[i].buf)
         /\ Sealed[i].size = BufLen(Sealed[i].buf)
    /\ \A u \in remote.whole :
         /\ u.sha1 = HexSum(u.data)
         /\ u.size = BufLen(u.data)

\* C13: the buffer never holds more than Threshold bytes; every chunk
\* sealed has between 1 and Threshold bytes, and one sealed by Write has
\* exactly Threshold bytes.
C13_BufferBounded ==
    /\ BufLen(bw.cbuf) >= 0
    /\ BufLen(bw.cbuf) <= Threshold
    /\ \A i \in 1 .. Len(Sealed) :
         /\ Sealed[i].size >= 1
         /\ Sealed[i].size <= Threshold
         /\ hist.sealedBy[i] = "Write" => Sealed[i].size = Threshold

\* C13 witness: a Write of Threshold + 1 bytes on a buffer of Threshold - 1
\* has sealed two chunks, and Close has sealed the last 1 byte.
C13_Witness ==
    /\ hist.sealedBy = <<"Write", "Write", "Close">>
    /\ Sealed[3].size = 1
    /\ hist.total = 2 * Threshold + 1
    /\ hist.writes = 2

\* C14: the chunks handed to a goroutine and not yet acknowledged are never
\* more than max(1, ConcurrentUploads), and the writer counts a chunk
\* (bw.cidx++) only when a goroutine has received it: bw.cidx is the number
\* of chunks received, less the one whose send the caller has just left.
C14_Backpressure ==
    /\ Cardinality(SealedIds \ remote.acked) <= (IF hist.cu0 > 1 THEN hist.cu0 ELSE 1)
    /\ bw.cidx = Len(Sealed) - (IF caller.pc = "sent" THEN 1 ELSE 0)

\* C14 witness: with two goroutines, two chunks are out, one of them being
\* sent back after a failure, and the caller waits to hand over a third.
C14_Witness ==
    /\ hist.cu0 = 2
    /\ Cardinality(SealedIds \ remote.acked) = 2
    /\ thr.resend # {}
    /\ caller.pc = "send"

\* C17: no goroutine sends on bw.ready once Close has closed it.
C17_NoSendOnClosedChannel ==
    /\ ~(bw.ready = "closed" /\ thr.resend # {})
    /\ thr.panicked = 0

\* C18: after a failed StartLargeFile no call of Write or Close blocks for
\* ever: the caller is between calls or the program can take a step.
C18_FailedStartDoesNotWedge ==
    "start" \in hist.failed => (caller.pc = "idle" \/ ENABLED ProgramStep)

\* C20: every UploadPart call is given a payload of exactly size bytes, the
\* bytes of the chunk as it was sealed.
C20_RetryUploadsSamePart ==
    \A c \in remote.parts :
        /\ BufLen(c.data) = c.size
        /\ c.id \in 1 .. Len(Sealed) => c.data = Sealed[c.id].buf

\* The map after the calls of the sequence q, one after the other: addWriter
\* makes the map if it is nil and stores, removeWriter returns on a nil map
\* and deletes otherwise.
RECURSIVE AfterCalls(_)
AfterCalls(q) ==
    IF q = << >> THEN NilMap
    ELSE LET m == AfterCalls(SubSeq(q, 1, Len(q) - 1))
             k == q[Len(q)]
         IN IF k.op = "add"
            THEN MapStore(IF m.made THEN m ELSE EmptyMap, RegistryKey(k.w), k.w)
            ELSE IF m.made THEN MapDelete(m, RegistryKey(k.w)) ELSE m

\* The calls that have taken the mutex, in the order they took it, and
\* those of them that have returned or hold it.
Ordered == [j \in 1 .. Len(client.order) |-> client.calls[client.order[j]]]
InCriticalSection ==
    {i \in DOMAIN client.calls :
        client.calls[i].pc \in {"test", "make", "store", "delete", "unlock"}}

\* The writers whose last call in that order is an addWriter.
Registered ==
    {w \in RegistryWriters :
        \E j \in 1 .. Len(Ordered) :
            /\ Ordered[j].w = w
            /\ Ordered[j].op = "add"
            /\ \A l \in (j + 1) .. Len(Ordered) : Ordered[l].w # w}

\* C15: at most one call is between Lock and Unlock, and whenever the mutex
\* is free the map is the one the calls made so far give when applied one
\* after the other in the order they took the mutex: addWriter makes the
\* map on first use, removeWriter on a nil map or of an absent key changes
\* nothing.
C15_RegistryLinearizable ==
    /\ Cardinality(InCriticalSection) <= 1
    /\ InCriticalSection = {} => client.sWriters = AfterCalls(Ordered)

\* C15 witness: three calls have returned, the last a removeWriter of a key
\* that was not in the map.
C15_Witness ==
    /\ Len(client.calls) = 3
    /\ \A i \in 1 .. 3 : client.calls[i].pc = "done"
    /\ client.calls[1].op = "remove"
    /\ client.calls[2].op = "add"
    /\ client.calls[3].op = "remove"
    /\ client.calls[3].w.name # client.calls[2].w.name
    /\ client.order = <<1, 2, 3>>
    /\ DOMAIN client.sWriters.tab = {RegistryKey(client.calls[2].w)}

\* C16: whenever the mutex is free, every writer added and not removed since
\* is the value of the entry of its key.
C16_RegistryTracksActiveWriters ==
    InCriticalSection = {} =>
        \A w \in Registered :
            /\ client.sWriters.made
            /\ RegistryKey(w) \in DOMAIN client.sWriters.tab
            /\ client.sWriters.tab[RegistryKey(w)] = w

\* The calls of UploadPart made for part id.
PartCalls(id) == {c \in remote.parts : c.id = id}

\* In a run without failures each part is uploaded at most once, with attempt
\* counter 0, only sealed parts are uploaded, and FinishLargeFile is called
\* at most once; once the first Close of a multi-part upload has returned,
\* each sealed part was uploaded exactly once and FinishLargeFile called once.
C19_Once ==
    /\ \A c \in remote.parts : c.attempt = 0 /\ c.id \in SealedIds
    /\ \A id \in SealedIds : Cardinality(PartCalls(id)) <= 1
    /\ remote.uploadPart = Cardinality(remote.acked)
    /\ remote.finish <= 1
    /\ (hist.closes >= 1 /\ caller.pc = "idle" /\ bw.cidx > 0) =>
          /\ remote.acked = SealedIds
          /\ remote.uploadPart = Len(Sealed)
          /\ remote.finish = 1

\* C19: when no remote call fails, for every pool size and with every
\* goroutine that can step taking its step, no goroutine panics, every Write
\* and every Close returns, every upload goroutine exits once Close has
\* closed the channel, each sealed part is passed to UploadPart exactly once
\* with attempt 0, and FinishLargeFile is called exactly once.
C19_FailureFreeRunCompletes ==
    /\ [](proc = "running")
    /\ []C19_Once
    /\ (caller.pc # "idle") ~> (caller.pc = "idle")
    /\ (hist.closes >= 1 /\ bw.cidx > 0) ~> (Running = 0 /\ thr.exited = hist.spawned)
    /\ \A k \in 1 .. (MaxWrites + 1) : (k \in SealedIds) ~> (k \in remote.acked)

====
